---- MODULE Spec2Model ----
(***************************************************************************)
(* Model of src-v3/taxonomic_assignment/WoRMS_v3_matching.py:              *)
(* get_worms_match_for_dataframe and its helpers.  Python strings are TLA+ *)
(* strings (TLC treats them as sequences of one-character strings), Python *)
(* dicts are functions, Python lists are sequences.                        *)
(***************************************************************************)
EXTENDS Integers, Sequences, FiniteSets, TLC

-----------------------------------------------------------------------------
(* Python values *)

\* Python's None; no string of the model's data is equal to it.
NoneVal == "<None>"
\* pandas' missing value (NaN) in the verbatimIdentification column.
NaN == "<NaN>"

isna(v) == v = NaN

\* dict.get(k): the value, or None when the key is missing.
Get(d, k) == IF k \in DOMAIN d THEN d[k] ELSE NoneVal

\* d[k] = v
DictSet(d, k, v) == [x \in (DOMAIN d) \cup {k} |-> IF x = k THEN v ELSE d[x]]

\* d.update(e)
DictUpdate(d, e) == [x \in (DOMAIN d) \cup (DOMAIN e) |-> IF x \in DOMAIN e THEN e[x] ELSE d[x]]

EmptyDict == [x \in {} |-> NoneVal]

-----------------------------------------------------------------------------
(* Python string methods *)

UpperAlpha == "ABCDEFGHIJKLMNOPQRSTUVWXYZ"
LowerAlpha == "abcdefghijklmnopqrstuvwxyz"
DigitChars == "0123456789"

CharAt(s, i) == SubSeq(s, i, i)

isdigit(c) == c \in {"0", "1", "2", "3", "4", "5", "6", "7", "8", "9"}

LowerOf ==
    [A |-> "a", B |-> "b", C |-> "c", D |-> "d", E |-> "e", F |-> "f", G |-> "g", H |-> "h",
     I |-> "i", J |-> "j", K |-> "k", L |-> "l", M |-> "m", N |-> "n", O |-> "o", P |-> "p",
     Q |-> "q", R |-> "r", S |-> "s", T |-> "t", U |-> "u", V |-> "v", W |-> "w", X |-> "x",
     Y |-> "y", Z |-> "z"]

lower_char(c) == IF c \in DOMAIN LowerOf THEN LowerOf[c] ELSE c

\* str.lower(), by halves so that long strings do not nest deeply
RECURSIVE lower(_)
lower(s) ==
    IF Len(s) = 0 THEN ""
    ELSE IF Len(s) = 1 THEN lower_char(s)
         ELSE LET h == Len(s) \div 2
              IN lower(SubSeq(s, 1, h)) \o lower(SubSeq(s, h + 1, Len(s)))

RECURSIVE lstrip(_, _)
lstrip(s, c) == IF s # "" /\ Head(s) = c THEN lstrip(Tail(s), c) ELSE s

RECURSIVE rstrip(_, _)
rstrip(s, c) ==
    IF s # "" /\ CharAt(s, Len(s)) = c THEN rstrip(SubSeq(s, 1, Len(s) - 1), c) ELSE s

\* str.strip(): whitespace of the model's alphabet is the space character.
strip(s) == rstrip(lstrip(s, " "), " ")

\* sub in s
contains(s, sub) ==
    \E i \in 1..(Len(s) - Len(sub) + 1) : SubSeq(s, i, i + Len(sub) - 1) = sub

\* str.split(sep) for a one-character separator: the pieces between the
\* separator positions, the string's two ends included
split(s, sep) ==
    LET is_sep(k) == CharAt(s, k) = sep
        cuts == <<0>> \o SelectSeq([k \in 1..Len(s) |-> k], is_sep) \o <<Len(s) + 1>>
    IN [k \in 1..(Len(cuts) - 1) |-> SubSeq(s, cuts[k] + 1, cuts[k + 1] - 1)]

\* sep.join(names), by halves
RECURSIVE join(_, _)
join(sep, names) ==
    IF Len(names) = 0 THEN ""
    ELSE IF Len(names) = 1 THEN names[1]
         ELSE LET h == Len(names) \div 2
              IN join(sep, SubSeq(names, 1, h)) \o sep \o join(sep, SubSeq(names, h + 1, Len(names)))

\* str.replace(old, new) for a one-character old: the pieces between the
\* occurrences, joined by new
replace_char(s, old, new) == join(new, split(s, old))

\* str.replace(old, new) scanning left to right over non-overlapping occurrences
RECURSIVE replace_scan(_, _, _)
replace_scan(s, old, new) ==
    IF Len(s) < Len(old) THEN s
    ELSE IF SubSeq(s, 1, Len(old)) = old
         THEN new \o replace_scan(SubSeq(s, Len(old) + 1, Len(s)), old, new)
         ELSE Head(s) \o replace_scan(Tail(s), old, new)

\* str.replace(old, new)
replace(s, old, new) ==
    IF Len(old) = 1 THEN replace_char(s, old, new) ELSE replace_scan(s, old, new)

\* re.sub(r'\d+', '', name)
RECURSIVE remove_digits(_)
remove_digits(s) ==
    IF s = "" THEN ""
    ELSE IF isdigit(Head(s)) THEN remove_digits(Tail(s))
         ELSE Head(s) \o remove_digits(Tail(s))

\* re.sub(r'\s+', ' ', name)
RECURSIVE collapse_spaces(_)
collapse_spaces(s) ==
    IF s = "" THEN ""
    ELSE IF Head(s) = " " THEN " " \o collapse_spaces(lstrip(s, " "))
         ELSE Head(s) \o collapse_spaces(Tail(s))

any_digit(s) == \E i \in 1..Len(s) : isdigit(CharAt(s, i))

\* str(n) for a natural number
RECURSIVE ToStr(_)
ToStr(n) ==
    IF n < 10 THEN CharAt(DigitChars, n + 1)
    ELSE ToStr(n \div 10) \o CharAt(DigitChars, (n % 10) + 1)

-----------------------------------------------------------------------------
(* parse_semicolon_taxonomy *)

DWC_RANKS_STD == <<"kingdom", "phylum", "class", "order", "family", "genus", "species">>

\* the cleaning without the removal of digits
clean_name_keep_digits(token) ==
    LET name0 == strip(token) IN
    IF name0 = "" \/ lower(name0) = "unassigned" THEN ""
    ELSE LET name1 == replace(replace(name0, " sp.", ""), " spp.", "")
             name3 == IF contains(name1, "  ") THEN collapse_spaces(name1) ELSE name1
             name4 == strip(name3)
         IN IF name4 # "" /\ Len(name4) > 1 THEN name4 ELSE ""

\* the body of the loop over cleaned_string.split(';'): the cleaned name, or ""
\* when the token is skipped
clean_name(token) ==
    LET name0 == strip(token) IN
    IF name0 = "" \/ lower(name0) = "unassigned" THEN ""
    ELSE LET name1 == replace(replace(name0, " sp.", ""), " spp.", "")
             name2 == IF any_digit(name1) THEN remove_digits(name1) ELSE name1
             name3 == IF contains(name2, "  ") THEN collapse_spaces(name2) ELSE name2
             name4 == strip(name3)
         IN IF name4 # "" /\ Len(name4) > 1 THEN name4 ELSE ""

\* the loop over the tokens: the cleaned names that are kept, in order
clean_names(tokens) ==
    LET kept(n) == n # ""
    IN SelectSeq([i \in 1..Len(tokens) |-> clean_name(tokens[i])], kept)

parse_semicolon_taxonomy(tax_string) ==
    IF isna(tax_string) \/ strip(tax_string) = "" THEN <<>>
    ELSE LET cleaned_string == replace(replace(replace(tax_string, "_", " "), "-", " "), "/", " ")
         IN clean_names(split(cleaned_string, ";"))


-----------------------------------------------------------------------------
(* Inputs of a run: the dataset, params_dict, n_proc and the remote service *)

\* bounds of the enumerated inputs
MaxNProcArg == 4
MaxCpuCount == 4
NumFillerTerms == 51

Row(v, a) == [verbatimIdentification |-> v, assay_name |-> a]

\* a two-letter term "Fa", "Fb", ... distinct for distinct i
Filler(i) == CharAt(UpperAlpha, 6 + ((i - 1) \div 26)) \o CharAt(LowerAlpha, 1 + ((i - 1) % 26))

\* a lineage of NumFillerTerms terms: more terms than one batch holds
BulkLineage == join(";", [i \in 1..NumFillerTerms |-> Filler(i)])

\* a row that carries other columns too: an identifier of its own and a
\* scientificName from an earlier step
Described(row, n) ==
    DictUpdate(row, [occurrenceID |-> "occ" \o ToStr(n), scientificName |-> "old name"])

\* rows that the fast path or the sentinel key resolve
EmptyRows ==
    << Row("", "16S"), Row("  ", "18S"), Row("Unassigned", "16S"), Row("unassigned;", "16S"),
       Row(NaN, "18S"), Row("unassigned;", "18S"), Row("Eukaryota", "16S"),
       Row(" EUKARYOTA;; ", "18S"), Row("Unassigned", "18S"), Row("nan", "16S") >>

DatasetEmpties == [n \in 1..Len(EmptyRows) |-> Described(EmptyRows[n], n)]

\* rows whose most specific term the local dictionary may know
DatasetLineages ==
    << Row("Aa;Bb;Cc", "16S"), Row("Aa;Bb", "16S"), Row("Bacteria", "16S"),
       Row("Aa;Bb;Cc", "18S"), Row("Eukaryota;Metazoa_sp.2;", "16S"),
       Row("Aa;Bb;Cc", "16S"), Row("Eukaryota", "18S"), Row("", "16S") >>

\* rows whose terms fill more than one batch
DatasetBulk ==
    << Row(BulkLineage, "16S"), Row("Aa;Bb;Cc", "18S"), Row("Bb;Cc", "COI"),
       Row("X;1", "16S"), Row("Aa;Bb;Cc", "18S"), Row("Unassigned", "COI"),
       Row("X;Aa", "COI") >>

Datasets == {DatasetEmpties, DatasetLineages, DatasetBulk}

\* params_dict['pr2_worms_dict']: name -> AphiaID
Pr2Dicts ==
    { EmptyDict,
      [n \in {"Cc", "Bb", "Bacteria", "Metazoa"} |->
          CASE n = "Cc" -> 1 [] n = "Bb" -> 2 [] n = "Bacteria" -> 3 [] OTHER -> 4] }

\* params_dict['assays_to_skip_species_match']
SkipSets == { {}, {"18S", "COI"} }

\* params_dict['assay_rank_info']
AssayRankInfo ==
    [a \in {"18S", "COI"} |-> [max_depth |-> IF a = "18S" THEN 3 ELSE 1]]

\* a negative request, the default 0, and a request above the cap
NProcArgs == {-1, 0, MaxNProcArg}

RankSet == {DWC_RANKS_STD[i] : i \in 1..Len(DWC_RANKS_STD)}

\* an AphiaRecord as the service returns it
AphiaRecord(name, status) ==
    [k \in {"status", "scientificname", "lsid", "rank"} \cup RankSet |->
        CASE k = "status" -> status
          [] k = "scientificname" -> name
          [] k = "lsid" -> "urn:lsid:" \o name
          [] k = "rank" -> "Genus"
          [] k = "kingdom" -> "Animalia"
          [] OTHER -> NoneVal]

\* an accepted record that carries no scientificname
NamelessRecord == [k \in {"status", "lsid"} |-> IF k = "status" THEN "accepted" ELSE "urn:lsid:0"]

Value(kind, rec) == [kind |-> kind, rec |-> rec]

\* what aphiaRecordByAphiaID answers when it does not raise: AphiaID -> value
BackboneAllAccepted == [id \in 1..4 |-> Value("dict", AphiaRecord("N" \o ToStr(id), "accepted"))]

BackboneMixed ==
    [id \in 1..4 |->
        CASE id = 1 -> Value("dict", AphiaRecord("N1", "unaccepted"))
          [] id = 2 -> Value("none", EmptyDict)
          [] id = 3 -> Value("dict", NamelessRecord)
          [] OTHER -> Value("nondict", EmptyDict)]

BackbonesById == {BackboneAllAccepted, BackboneMixed}

\* what aphiaRecordsByMatchNames answers for one name when it does not raise:
\* name -> ordered candidate list (names outside the domain have no candidate)
BackbonesByName ==
    { [n \in {"Aa", "Bb", "Cc", "Bacteria", Filler(1), Filler(NumFillerTerms)} |->
          IF n = "Bb"
          THEN << Value("dict", AphiaRecord("Bx", "unaccepted")),
                  Value("dict", AphiaRecord("B1", "accepted")),
                  Value("dict", AphiaRecord("B2", "accepted")) >>
          ELSE IF n = "Cc"
          THEN << Value("none", EmptyDict), Value("dict", AphiaRecord("Cx", "unaccepted")) >>
          ELSE << Value("dict", AphiaRecord(n, "accepted")) >>],
      [n \in {"Aa", "Bb", "Cc", "Metazoa", Filler(2)} |->
          CASE n = "Cc" -> << Value("none", EmptyDict), Value("dict", AphiaRecord("Cx", "unaccepted")) >>
            [] n = "Aa" -> << Value("nondict", EmptyDict) >>
            [] n = "Metazoa" -> << Value("dict", NamelessRecord) >>
            [] OTHER -> << Value("dict", AphiaRecord(n, "accepted")) >>],
      EmptyDict }

-----------------------------------------------------------------------------
(* State of one call of get_worms_match_for_dataframe *)

VARIABLES
    occurrence_df,            \* the caller's dataset: a sequence of rows
    params_dict,              \* pr2_worms_dict, assays_to_skip_species_match, assay_rank_info, taxonomic_api_source
    n_proc_arg,               \* the n_proc argument
    worms_by_id,              \* the service's answer per AphiaID
    worms_by_name,            \* the service's candidate list per name
    pc,                       \* position of the control thread
    n_proc,                   \* the clamped worker count
    map_key,                  \* df_to_process['_map_key'], per row
    unique_tuples_to_process,
    results_cache,
    cases_to_handle,
    unmatched_tuples,
    aphia_id_map,             \* [ids: AphiaIDs in insertion order, groups: AphiaID -> keys]
    pool,                     \* the mp.Pool of the current stage
    parallel_results,         \* what pool.map returned
    all_terms_to_match,
    batch_data,
    batch_lookup,
    still_unmatched_batch,
    seq_call,                 \* the sequential fallback's call in flight
    i,                        \* index of the loop the control thread is in
    df_result,                \* the returned dataset
    cache_writes,             \* history: number of assignments to results_cache per key
    id_fetches,               \* history: aphiaRecordByAphiaID calls per AphiaID
    term_submits,             \* history: batches in which a name was passed to aphiaRecordsByMatchNames
    batch_outcome,            \* history: how each batch's call and processing ended
    stage2_path,              \* history: "parallel" or "sequential" once Stage 2 fetches
    tax_string,               \* the argument of a call of parse_semicolon_taxonomy on its own
    cleaned_names             \* what that call returned

parse_vars == <<tax_string, cleaned_names>>
inputs == <<occurrence_df, params_dict, n_proc_arg, worms_by_id, worms_by_name>>
stage1_vars == <<aphia_id_map, parallel_results>>
stage2_vars == <<all_terms_to_match, batch_data, batch_lookup, still_unmatched_batch, seq_call, batch_outcome>>
history == <<id_fetches, term_submits, stage2_path>>
vars == <<parse_vars, inputs, pc, n_proc, map_key, unique_tuples_to_process, results_cache, cases_to_handle,
          unmatched_tuples, stage1_vars, pool, stage2_vars, i, df_result, cache_writes, history>>

\* the sentinel key 'IS_TRULY_EMPTY'; the other keys are pairs (lineage, assay)
IS_TRULY_EMPTY == <<"IS_TRULY_EMPTY">>

NoPool == [alive |-> FALSE, stage |-> 0, tasks |-> <<>>, pending |-> {}, running |-> {},
           results |-> EmptyDict]

api_source == params_dict.taxonomic_api_source
assays_to_skip_species == params_dict.assays_to_skip_species_match
pr2_dict == params_dict.pr2_worms_dict
assay_rank_info == params_dict.assay_rank_info

Init ==
    /\ occurrence_df \in Datasets
    /\ \E d \in Pr2Dicts, sk \in SkipSets :
          params_dict = [pr2_worms_dict |-> d, assays_to_skip_species_match |-> sk,
                         assay_rank_info |-> AssayRankInfo, taxonomic_api_source |-> "WoRMS"]
    /\ n_proc_arg \in NProcArgs
    \* the answers per AphiaID matter only when the dictionary yields AphiaIDs
    /\ worms_by_id \in (IF DOMAIN params_dict.pr2_worms_dict = {} THEN {BackboneAllAccepted} ELSE BackbonesById)
    /\ worms_by_name \in BackbonesByName
    /\ pc = "start"
    /\ n_proc = n_proc_arg
    /\ map_key = <<>>
    /\ unique_tuples_to_process = <<>>
    /\ results_cache = EmptyDict
    /\ cases_to_handle = <<>>
    /\ unmatched_tuples = <<>>
    /\ aphia_id_map = [ids |-> <<>>, groups |-> EmptyDict]
    /\ pool = NoPool
    /\ parallel_results = <<>>
    /\ all_terms_to_match = <<>>
    /\ batch_data = <<>>
    /\ batch_lookup = EmptyDict
    /\ still_unmatched_batch = <<>>
    /\ seq_call = 0
    /\ i = 1
    /\ df_result = <<>>
    /\ cache_writes = EmptyDict
    /\ id_fetches = EmptyDict
    /\ term_submits = EmptyDict
    /\ batch_outcome = EmptyDict
    /\ stage2_path = "none"
    /\ tax_string = NoneVal
    /\ cleaned_names = <<>>

\* sequence helpers
Range(seq) == {seq[k] : k \in 1..Len(seq)}
InSeq(x, seq) == \E k \in 1..Len(seq) : seq[k] = x

\* Series.drop_duplicates(): first occurrences, in order
drop_duplicates(seq) ==
    LET first(k) == \A j \in 1..(k - 1) : seq[j] # seq[k]
        idx == SelectSeq([k \in 1..Len(seq) |-> k], first)
    IN [k \in 1..Len(idx) |-> seq[idx[k]]]

\* results_cache[k] = rec, with the history of assignments
CacheAssign(k, rec) ==
    /\ results_cache' = DictSet(results_cache, k, rec)
    /\ cache_writes' = DictSet(cache_writes, k, IF k \in DOMAIN cache_writes THEN cache_writes[k] + 1 ELSE 1)

-----------------------------------------------------------------------------
(* Lines 113-146: worker count, the key column, the unique keys *)

\* the worker count without the cap of 3
clamp_n_proc_uncapped(n, cpu_count) == IF n = 0 THEN cpu_count ELSE n

clamp_n_proc(n, cpu_count) == IF n = 0 THEN (IF 3 < cpu_count THEN 3 ELSE cpu_count)
                              ELSE (IF n < 3 THEN n ELSE 3)

\* the mask with trailing semicolons removed before the comparison
empty_verbatim_mask_semicolon(row) ==
    LET v == row.verbatimIdentification IN
    \/ isna(v)
    \/ strip(rstrip(strip(v), ";")) = ""
    \/ lower(strip(rstrip(strip(v), ";"))) = "unassigned"

\* lines 124-126
empty_verbatim_mask(row) ==
    LET v == row.verbatimIdentification IN
    \/ isna(v)
    \/ strip(v) = ""
    \/ lower(strip(v)) = "unassigned"

row_map_key(row) ==
    IF empty_verbatim_mask(row) THEN IS_TRULY_EMPTY
    ELSE <<row.verbatimIdentification, row.assay_name>>

Setup ==
    /\ pc = "start"
    /\ \E cpu_count \in 1..MaxCpuCount : n_proc' = clamp_n_proc(n_proc_arg, cpu_count)
    /\ map_key' = [r \in 1..Len(occurrence_df) |-> row_map_key(occurrence_df[r])]
    /\ LET non_empty(k) == k # IS_TRULY_EMPTY
       IN unique_tuples_to_process' = drop_duplicates(SelectSeq(map_key', non_empty))
    /\ i' = 1
    /\ pc' = "fast_path"
    /\ UNCHANGED <<parse_vars, inputs, results_cache, cases_to_handle, unmatched_tuples, stage1_vars, pool,
                   stage2_vars, df_result, cache_writes, history>>

-----------------------------------------------------------------------------
(* Lines 148-188: keys that get 'incertae sedis' immediately *)

NullRanks == [k \in RankSet |-> NoneVal]

incertae_sedis_record(label, cleaned) ==
    DictUpdate([scientificName |-> "incertae sedis",
                scientificNameID |-> "urn:lsid:marinespecies.org:taxname:12",
                taxonRank |-> NoneVal,
                nameAccordingTo |-> api_source,
                match_type_debug |-> label,
                cleanedTaxonomy |-> cleaned],
               NullRanks)

cleaned_verbatim_of(verbatim_str) == strip(rstrip(strip(verbatim_str), ";"))

is_unassigned_case(verbatim_str) ==
    LET cleaned_verbatim == cleaned_verbatim_of(verbatim_str) IN
    \/ cleaned_verbatim = ""
    \/ lower(cleaned_verbatim) \in {"unassigned", "nan", "none", ""}
    \/ isna(verbatim_str)

\* the shortcut taken by the bacterial kingdom too
is_simple_case_kingdoms(verbatim_str) ==
    lower(cleaned_verbatim_of(verbatim_str)) \in {"eukaryota", "bacteria"}

\* line 172
is_simple_case(verbatim_str) == lower(cleaned_verbatim_of(verbatim_str)) \in {"eukaryota"}

\* one iteration of the loop over unique_tuples_to_process
FastPathStep ==
    /\ pc = "fast_path"
    /\ i <= Len(unique_tuples_to_process)
    /\ LET combo == unique_tuples_to_process[i]
           cleaned_verbatim == cleaned_verbatim_of(combo[1])
       IN IF is_unassigned_case(combo[1])
          THEN /\ CacheAssign(combo, incertae_sedis_record("incertae_sedis_unassigned", cleaned_verbatim))
               /\ cases_to_handle' = Append(cases_to_handle, combo)
          ELSE IF is_simple_case(combo[1])
          THEN /\ CacheAssign(combo, incertae_sedis_record("incertae_sedis_simple_case_" \o cleaned_verbatim,
                                                           cleaned_verbatim))
               /\ cases_to_handle' = Append(cases_to_handle, combo)
          ELSE UNCHANGED <<results_cache, cache_writes, cases_to_handle>>
    /\ i' = i + 1
    /\ UNCHANGED <<parse_vars, inputs, pc, n_proc, map_key, unique_tuples_to_process, unmatched_tuples,
                   stage1_vars, pool, stage2_vars, df_result, history>>

\* the handled keys are left in the list
remove_handled_kept(tuples, handled) == tuples

\* line 186: [t for t in unique_tuples_to_process if t not in cases_to_handle]
remove_handled(tuples, handled) ==
    LET not_handled(t) == ~InSeq(t, handled)
    IN SelectSeq(tuples, not_handled)

\* line 186, and the branch of line 191 / 232-233
FastPathDone ==
    /\ pc = "fast_path"
    /\ i > Len(unique_tuples_to_process)
    /\ unique_tuples_to_process' = remove_handled(unique_tuples_to_process, cases_to_handle)
    /\ IF DOMAIN pr2_dict # {}
       THEN /\ pc' = "stage1"
            /\ UNCHANGED unmatched_tuples
       ELSE /\ pc' = "stage2"
            /\ unmatched_tuples' = unique_tuples_to_process'
    /\ i' = 1
    /\ UNCHANGED <<parse_vars, inputs, n_proc, map_key, results_cache, cases_to_handle, stage1_vars, pool,
                   stage2_vars, df_result, cache_writes, history>>

-----------------------------------------------------------------------------
(* mp.Pool(processes=n_proc) and pool.map *)

\* mp.Pool(processes=n) raises ValueError for n < 1; the operating system may
\* refuse the processes for any n
PoolCanStart == n_proc >= 1

NewPool(stage, tasks) ==
    [alive |-> TRUE, stage |-> stage, tasks |-> tasks, pending |-> 1..Len(tasks), running |-> {},
     results |-> EmptyDict]

Bump(counts, keys) ==
    [x \in (DOMAIN counts) \cup keys |->
        (IF x \in DOMAIN counts THEN counts[x] ELSE 0) + (IF x \in keys THEN 1 ELSE 0)]

\* one more per occurrence in the sequence
BumpSeq(counts, seq) ==
    [x \in (DOMAIN counts) \cup Range(seq) |->
        (IF x \in DOMAIN counts THEN counts[x] ELSE 0) + Cardinality({k \in 1..Len(seq) : seq[k] = x})]

\* a free worker process takes the next task and issues its remote call
WorkerStart ==
    /\ pool.alive
    /\ Cardinality(pool.running) < n_proc
    /\ \E t \in pool.pending :
          /\ pool' = [pool EXCEPT !.pending = @ \ {t}, !.running = @ \cup {t}]
          /\ IF pool.stage = 1
             THEN /\ id_fetches' = BumpSeq(id_fetches, <<pool.tasks[t]>>)
                  /\ UNCHANGED term_submits
             ELSE /\ term_submits' = BumpSeq(term_submits, pool.tasks[t][2])
                  /\ UNCHANGED id_fetches
    /\ UNCHANGED stage2_path
    /\ UNCHANGED <<parse_vars, inputs, pc, n_proc, map_key, unique_tuples_to_process, results_cache, cases_to_handle,
                   unmatched_tuples, stage1_vars, stage2_vars, i, df_result, cache_writes>>

-----------------------------------------------------------------------------
(* Lines 49-67: get_worms_classification_by_id_worker *)

Raised == Value("raise", EmptyDict)

\* bool(record) and isinstance(record, dict)
truthy_dict(v) == v.kind = "dict" /\ DOMAIN v.rec # {}

get_worms_classification_by_id_worker(aphia_id_to_check, api_source_for_record, response) ==
    IF response.kind # "raise" /\ truthy_dict(response) /\ Get(response.rec, "status") = "accepted"
    THEN << aphia_id_to_check,
            DictUpdate([scientificName |-> Get(response.rec, "scientificname"),
                        scientificNameID |-> Get(response.rec, "lsid"),
                        taxonRank |-> Get(response.rec, "rank"),
                        nameAccordingTo |-> api_source_for_record,
                        match_type_debug |-> "Success_AphiaID_" \o ToStr(aphia_id_to_check)],
                       [rank_std \in RankSet |-> Get(response.rec, rank_std)]) >>
    ELSE << aphia_id_to_check, [match_type_debug |-> "Failure_AphiaID_" \o ToStr(aphia_id_to_check)] >>

\* pyworms.aphiaRecordByAphiaID: the service's answer, or an exception
aphiaRecordByAphiaID(aphia_id, raises) ==
    IF raises THEN Raised
    ELSE IF aphia_id \in DOMAIN worms_by_id THEN worms_by_id[aphia_id] ELSE Value("none", EmptyDict)

\* a worker's call returns and the worker function finishes
IdWorkerFinish ==
    /\ pool.alive /\ pool.stage = 1
    /\ \E t \in pool.running, raises \in BOOLEAN :
          pool' = [pool EXCEPT !.running = @ \ {t},
                               !.results = DictSet(@, t, get_worms_classification_by_id_worker(
                                               pool.tasks[t], api_source,
                                               aphiaRecordByAphiaID(pool.tasks[t], raises)))]
    /\ UNCHANGED <<parse_vars, inputs, pc, n_proc, map_key, unique_tuples_to_process, results_cache, cases_to_handle,
                   unmatched_tuples, stage1_vars, stage2_vars, i, df_result, cache_writes, history>>

-----------------------------------------------------------------------------
(* Lines 190-233: Stage 1, PR2 AphiaID pre-matching *)

\* no key is kept from the dictionary lookup
skips_species_match_never(combo) == FALSE

\* line 197: the key's assay is in the skip-species set
skips_species_match(combo) == combo[2] \in assays_to_skip_species

\* the loop of lines 195-210 over the keys from index k on
RECURSIVE group_keys(_, _, _)
group_keys(k, amap, unmatched) ==
    IF k > Len(unique_tuples_to_process) THEN [amap |-> amap, unmatched |-> unmatched]
    ELSE LET combo == unique_tuples_to_process[k]
             parsed_names == parse_semicolon_taxonomy(combo[1])
         IN IF skips_species_match(combo)
            THEN group_keys(k + 1, amap, Append(unmatched, combo))
            ELSE IF parsed_names # <<>> /\ parsed_names[Len(parsed_names)] \in DOMAIN pr2_dict
            THEN LET aphia_id == pr2_dict[parsed_names[Len(parsed_names)]]
                     known == aphia_id \in DOMAIN amap.groups
                 IN group_keys(k + 1,
                               [ids |-> IF known THEN amap.ids ELSE Append(amap.ids, aphia_id),
                                groups |-> DictSet(amap.groups, aphia_id,
                                                   Append(IF known THEN amap.groups[aphia_id] ELSE <<>>, combo))],
                               unmatched)
            ELSE group_keys(k + 1, amap, Append(unmatched, combo))

Stage1Group ==
    /\ pc = "stage1"
    /\ LET g == group_keys(1, [ids |-> <<>>, groups |-> EmptyDict], unmatched_tuples)
       IN /\ aphia_id_map' = g.amap
          /\ unmatched_tuples' = g.unmatched
          /\ pc' = IF g.amap.ids # <<>> THEN "stage1_pool" ELSE "stage2"
    /\ UNCHANGED <<parse_vars, inputs, n_proc, map_key, unique_tuples_to_process, results_cache, cases_to_handle,
                   parallel_results, pool, stage2_vars, i, df_result, cache_writes, history>>

\* line 214: the pool of Stage 1 starts
Stage1PoolCreate ==
    /\ pc = "stage1_pool"
    /\ PoolCanStart
    /\ pool' = NewPool(1, aphia_id_map.ids)
    /\ pc' = "stage1_map"
    /\ UNCHANGED <<parse_vars, inputs, n_proc, map_key, unique_tuples_to_process, results_cache, cases_to_handle,
                   unmatched_tuples, stage1_vars, stage2_vars, i, df_result, cache_writes, history>>

\* line 214 raises: nothing around it catches, the call ends with the exception
Stage1PoolFail ==
    /\ pc = "stage1_pool"
    /\ pc' = "raised"
    /\ UNCHANGED <<parse_vars, inputs, n_proc, map_key, unique_tuples_to_process, results_cache, cases_to_handle,
                   unmatched_tuples, stage1_vars, pool, stage2_vars, i, df_result, cache_writes, history>>

\* only the first task's result is handed back
map_results_first(p) == [t \in 1..(IF Len(p.tasks) = 0 THEN 0 ELSE 1) |-> p.results[t]]

\* lines 216, 258: pool.map returns the list of every task's result, in task order
map_results(p) == [t \in 1..Len(p.tasks) |-> p.results[t]]

\* line 216 returns, the with block ends the pool
Stage1MapReturn ==
    /\ pc = "stage1_map"
    /\ pool.pending = {} /\ pool.running = {}
    /\ parallel_results' = map_results(pool)
    /\ pool' = NoPool
    /\ pc' = "stage1_merge"
    /\ i' = 1
    /\ UNCHANGED <<parse_vars, inputs, n_proc, map_key, unique_tuples_to_process, results_cache, cases_to_handle,
                   unmatched_tuples, aphia_id_map, stage2_vars, df_result, cache_writes, history>>

\* results_cache[combo] = rec for each pair of the sequence, in order
RECURSIVE assign_all(_, _, _)
assign_all(k, pairs, cw) ==
    IF k > Len(pairs) THEN cw
    ELSE assign_all(k + 1, pairs,
                    [cache |-> DictSet(cw.cache, pairs[k][1], pairs[k][2]),
                     writes |-> Bump(cw.writes, {pairs[k][1]})])

\* lines 222-226
with_cleaned(result, combo) ==
    LET parsed_names == parse_semicolon_taxonomy(combo[1])
        cleaned_taxonomy == IF parsed_names # <<>> THEN join(";", parsed_names) ELSE combo[1]
    IN DictSet(result, "cleanedTaxonomy", cleaned_taxonomy)

\* every result is taken for a match
is_match_result_any(result) == TRUE

\* lines 219: the worker's result is a match
is_match_result(result) == "scientificName" \in DOMAIN result

\* one iteration of the loop of line 218
Stage1MergeStep ==
    /\ pc = "stage1_merge"
    /\ i <= Len(parallel_results)
    /\ LET aphia_id == parallel_results[i][1]
           result == parallel_results[i][2]
           group == IF aphia_id \in DOMAIN aphia_id_map.groups THEN aphia_id_map.groups[aphia_id] ELSE <<>>
       IN IF is_match_result(result)
          THEN LET cw == assign_all(1, [k \in 1..Len(group) |-> <<group[k], with_cleaned(result, group[k])>>],
                                    [cache |-> results_cache, writes |-> cache_writes])
               IN /\ results_cache' = cw.cache
                  /\ cache_writes' = cw.writes
                  /\ UNCHANGED unmatched_tuples
          ELSE /\ unmatched_tuples' = unmatched_tuples \o group
               /\ UNCHANGED <<results_cache, cache_writes>>
    /\ i' = i + 1
    /\ UNCHANGED <<parse_vars, inputs, pc, n_proc, map_key, unique_tuples_to_process, cases_to_handle,
                   stage1_vars, pool, stage2_vars, df_result, history>>

Stage1MergeDone ==
    /\ pc = "stage1_merge"
    /\ i > Len(parallel_results)
    /\ pc' = "stage2"
    /\ i' = 1
    /\ UNCHANGED <<parse_vars, inputs, n_proc, map_key, unique_tuples_to_process, results_cache, cases_to_handle,
                   unmatched_tuples, stage1_vars, pool, stage2_vars, df_result, cache_writes, history>>

-----------------------------------------------------------------------------
(* Lines 69-99: get_worms_batch_worker, and the same loop inlined at 280-296 *)

chunk_size == 50

\* lines 84-91 / 287-293: the lookup entry built from a match
match_entry(match) ==
    DictUpdate([scientificName |-> Get(match, "scientificname"),
                scientificNameID |-> Get(match, "lsid"),
                taxonRank |-> Get(match, "rank")],
               [rank \in RankSet |-> Get(match, rank)])

\* bool(match): None and {} are falsy, anything else is truthy
truthy(v) == v.kind = "nondict" \/ truthy_dict(v)

\* `match and match.get('status') == 'accepted'` for one candidate:
\* "skip", "accept", or "error" (a truthy value without .get)
candidate_test(v) ==
    IF ~truthy(v) THEN "skip"
    ELSE IF v.kind # "dict" THEN "error"
    ELSE IF Get(v.rec, "status") = "accepted" THEN "accept" ELSE "skip"

\* the scan runs to the last candidate that is accepted or that raises
first_stop_last(name_list) ==
    LET stops == {k \in 1..Len(name_list) : candidate_test(name_list[k]) # "skip"}
    IN IF stops = {} THEN 0 ELSE CHOOSE k \in stops : \A j \in stops : j <= k

\* lines 79-94: the scan of one name's candidate list stops at the first
\* candidate that is accepted or that raises; 0 when there is none
first_stop(name_list) ==
    LET stops == {k \in 1..Len(name_list) : candidate_test(name_list[k]) # "skip"}
    IN IF stops = {} THEN 0 ELSE CHOOSE k \in stops : \A j \in stops : k <= j

\* pyworms.aphiaRecordsByMatchNames(chunk) when it does not raise
aphiaRecordsByMatchNames(chunk) ==
    [j \in 1..Len(chunk) |-> IF chunk[j] \in DOMAIN worms_by_name THEN worms_by_name[chunk[j]] ELSE <<>>]

\* the loop of lines 78-94 / 283-296 over batch_results_raw: the entries
\* assigned before the loop ends or raises, and whether it raised
process_batch(chunk, batch_results_raw) ==
    LET outcome(j) == IF first_stop(batch_results_raw[j]) = 0 THEN "skip"
                      ELSE candidate_test(batch_results_raw[j][first_stop(batch_results_raw[j])])
        errs == {j \in 1..Len(chunk) : outcome(j) = "error"}
        last == IF errs = {} THEN Len(chunk) ELSE (CHOOSE j \in errs : \A e \in errs : j <= e) - 1
        hits == {j \in 1..last : outcome(j) = "accept"}
    IN [entries |-> [n \in {chunk[j] : j \in hits} |->
                        LET j == CHOOSE h \in hits : chunk[h] = n
                        IN match_entry(batch_results_raw[j][first_stop(batch_results_raw[j])].rec)],
        raised |-> errs # {}]

\* get_worms_batch_worker(batch_info): (batch_num, batch_results)
get_worms_batch_worker(batch_info, raises) ==
    IF raises THEN <<batch_info[1], EmptyDict>>
    ELSE LET r == process_batch(batch_info[2], aphiaRecordsByMatchNames(batch_info[2]))
         IN <<batch_info[1], IF r.raised THEN EmptyDict ELSE r.entries>>

\* how a batch ended: its call raised, its processing raised, or it completed
outcome_of(chunk, raises) ==
    IF raises THEN "call_raised"
    ELSE IF process_batch(chunk, aphiaRecordsByMatchNames(chunk)).raised THEN "processing_raised"
    ELSE "completed"

BatchWorkerFinish ==
    /\ pool.alive /\ pool.stage = 2
    /\ \E t \in pool.running, raises \in BOOLEAN :
          /\ pool' = [pool EXCEPT !.running = @ \ {t},
                                  !.results = DictSet(@, t, get_worms_batch_worker(pool.tasks[t], raises))]
          /\ batch_outcome' = DictSet(batch_outcome, pool.tasks[t][1], outcome_of(pool.tasks[t][2], raises))
    /\ UNCHANGED <<parse_vars, inputs, pc, n_proc, map_key, unique_tuples_to_process, results_cache, cases_to_handle,
                   unmatched_tuples, stage1_vars, all_terms_to_match, batch_data, batch_lookup,
                   still_unmatched_batch, seq_call, i, df_result, cache_writes, history>>

-----------------------------------------------------------------------------
(* Lines 235-302: Stage 2, the terms, the batches, the parallel and the sequential calls *)

RECURSIVE terms_of(_, _)
terms_of(k, tuples) ==
    IF k > Len(tuples) THEN <<>>
    ELSE parse_semicolon_taxonomy(tuples[k][1]) \o terms_of(k + 1, tuples)

Reverse(seq) == [k \in 1..Len(seq) |-> seq[Len(seq) + 1 - k]]

\* the terms as a list with its repetitions, not a set
TermOrders_list(tuples) == {terms_of(1, tuples), Reverse(terms_of(1, tuples))}

\* list(set(...)): the distinct terms in an order the hash seed decides
TermOrders(tuples) ==
    LET distinct == drop_duplicates(terms_of(1, tuples))
    IN {distinct, Reverse(distinct)}

\* lines 244-251
make_batch_data(terms) ==
    LET total_batches == (Len(terms) + chunk_size - 1) \div chunk_size
    IN [b \in 1..total_batches |->
           <<b, SubSeq(terms, (b - 1) * chunk_size + 1,
                       IF b * chunk_size < Len(terms) THEN b * chunk_size ELSE Len(terms))>>]

Stage2Begin ==
    /\ pc = "stage2"
    /\ IF unmatched_tuples = <<>>
       THEN /\ pc' = "final"
            /\ UNCHANGED <<all_terms_to_match, batch_data, batch_lookup>>
       ELSE /\ all_terms_to_match' \in TermOrders(unmatched_tuples)
            /\ batch_lookup' = EmptyDict
            /\ IF all_terms_to_match' = <<>>
               THEN /\ pc' = "final"
                    /\ UNCHANGED batch_data
               ELSE /\ batch_data' = make_batch_data(all_terms_to_match')
                    /\ pc' = "stage2_pool"
    /\ i' = 1
    /\ UNCHANGED <<parse_vars, inputs, n_proc, map_key, unique_tuples_to_process, results_cache, cases_to_handle,
                   unmatched_tuples, stage1_vars, pool, still_unmatched_batch, seq_call, batch_outcome,
                   df_result, cache_writes, history>>

\* line 257: the pool of Stage 2 starts
Stage2PoolCreate ==
    /\ pc = "stage2_pool"
    /\ PoolCanStart
    /\ pool' = NewPool(2, batch_data)
    /\ pc' = "stage2_map"
    /\ stage2_path' = "parallel"
    /\ UNCHANGED <<parse_vars, inputs, n_proc, map_key, unique_tuples_to_process, results_cache, cases_to_handle,
                   unmatched_tuples, stage1_vars, stage2_vars, i, df_result, cache_writes,
                   id_fetches, term_submits>>

\* line 257 raises and line 268 catches: fall back to the sequential loop
Stage2PoolFail ==
    /\ pc = "stage2_pool"
    /\ pc' = "stage2_seq"
    /\ i' = 1
    /\ stage2_path' = "sequential"
    /\ UNCHANGED <<parse_vars, inputs, n_proc, map_key, unique_tuples_to_process, results_cache, cases_to_handle,
                   unmatched_tuples, stage1_vars, pool, stage2_vars, df_result, cache_writes,
                   id_fetches, term_submits>>

\* only the first batch's result is combined
update_first(k, results, lookup) ==
    IF Len(results) = 0 THEN lookup ELSE DictUpdate(lookup, results[1][2])

\* only the last batch's result is combined
update_last(k, results, lookup) ==
    IF Len(results) = 0 THEN lookup ELSE DictUpdate(lookup, results[Len(results)][2])

\* lines 262-264: batch_lookup.update(batch_result) for each result in order
RECURSIVE update_all(_, _, _)
update_all(k, results, lookup) ==
    IF k > Len(results) THEN lookup
    ELSE update_all(k + 1, results, DictUpdate(lookup, results[k][2]))

\* line 258 returns, the with block ends the pool, lines 262-264 combine
Stage2MapReturn ==
    /\ pc = "stage2_map"
    /\ pool.pending = {} /\ pool.running = {}
    /\ batch_lookup' = update_all(1, map_results(pool), batch_lookup)
    /\ pool' = NoPool
    /\ pc' = "stage2_lookup"
    /\ i' = 1
    /\ UNCHANGED <<parse_vars, inputs, n_proc, map_key, unique_tuples_to_process, results_cache, cases_to_handle,
                   unmatched_tuples, stage1_vars, all_terms_to_match, batch_data, still_unmatched_batch,
                   seq_call, batch_outcome, df_result, cache_writes, history>>

\* the chunk of the sequential loop's iteration b (lines 273-275)
seq_chunk(b) ==
    SubSeq(all_terms_to_match, (b - 1) * chunk_size + 1,
           IF b * chunk_size < Len(all_terms_to_match) THEN b * chunk_size ELSE Len(all_terms_to_match))

\* the loop stops after its first iteration
seq_batches_first == IF all_terms_to_match = <<>> THEN 0 ELSE 1

\* line 273: the number of iterations of range(0, len(all_terms_to_match), chunk_size)
seq_batches == (Len(all_terms_to_match) + chunk_size - 1) \div chunk_size

\* line 281: the control thread issues the call of batch i
SeqCall ==
    /\ pc = "stage2_seq"
    /\ seq_call = 0
    /\ i <= seq_batches
    /\ seq_call' = i
    /\ term_submits' = BumpSeq(term_submits, seq_chunk(i))
    /\ UNCHANGED <<parse_vars, inputs, pc, n_proc, map_key, unique_tuples_to_process, results_cache, cases_to_handle,
                   unmatched_tuples, stage1_vars, pool, all_terms_to_match, batch_data, batch_lookup,
                   still_unmatched_batch, batch_outcome, i, df_result, cache_writes, id_fetches,
                   stage2_path>>

\* lines 281-302: the call returns or raises; entries assigned before an
\* exception stay in batch_lookup
SeqReturn ==
    /\ pc = "stage2_seq"
    /\ seq_call # 0
    /\ \E raises \in BOOLEAN :
          /\ batch_lookup' =
                IF raises THEN batch_lookup
                ELSE DictUpdate(batch_lookup,
                                process_batch(seq_chunk(i), aphiaRecordsByMatchNames(seq_chunk(i))).entries)
          /\ batch_outcome' = DictSet(batch_outcome, i, outcome_of(seq_chunk(i), raises))
    /\ seq_call' = 0
    /\ i' = i + 1
    /\ UNCHANGED <<parse_vars, inputs, pc, n_proc, map_key, unique_tuples_to_process, results_cache, cases_to_handle,
                   unmatched_tuples, stage1_vars, pool, all_terms_to_match, batch_data,
                   still_unmatched_batch, df_result, cache_writes, history>>

SeqDone ==
    /\ pc = "stage2_seq"
    /\ seq_call = 0
    /\ i > seq_batches
    /\ pc' = "stage2_lookup"
    /\ i' = 1
    /\ UNCHANGED <<parse_vars, inputs, n_proc, map_key, unique_tuples_to_process, results_cache, cases_to_handle,
                   unmatched_tuples, stage1_vars, pool, stage2_vars, df_result, cache_writes, history>>

-----------------------------------------------------------------------------
(* Lines 304-344: the per-key lookup of Stage 2 *)

\* assay_rank_info.get(assay_name, {}).get('max_depth', 99)
max_depth_for_assay(assay_name) ==
    IF assay_name \in DOMAIN assay_rank_info /\ "max_depth" \in DOMAIN assay_rank_info[assay_name]
    THEN assay_rank_info[assay_name]["max_depth"]
    ELSE 99

\* the last term is removed only for a lineage longer than max_depth
drop_species_longer(parsed_names, assay_name) ==
    IF assay_name \in assays_to_skip_species /\ Len(parsed_names) > max_depth_for_assay(assay_name)
    THEN SubSeq(parsed_names, 1, Len(parsed_names) - 1)
    ELSE parsed_names

\* lines 312-317: the last term is removed for a full-length lineage of a skipping assay
drop_species(parsed_names, assay_name) ==
    IF assay_name \in assays_to_skip_species /\ Len(parsed_names) >= max_depth_for_assay(assay_name)
    THEN SubSeq(parsed_names, 1, Len(parsed_names) - 1)
    ELSE parsed_names

\* the position of the least specific term that is in the lookup table
matched_position_forward(parsed_names, lookup) ==
    LET found == {k \in 1..Len(parsed_names) : parsed_names[k] \in DOMAIN lookup}
    IN IF found = {} THEN 0 ELSE CHOOSE k \in found : \A j \in found : k <= j

\* lines 328-338: the position of the first term of reversed(parsed_names)
\* that is in the lookup table; 0 when no term is
matched_position(parsed_names, lookup) ==
    LET found == {k \in 1..Len(parsed_names) : parsed_names[k] \in DOMAIN lookup}
    IN IF found = {} THEN 0 ELSE CHOOSE k \in found : \A j \in found : j <= k

\* lines 331-336
batch_record(entry, term, cleaned_taxonomy) ==
    DictUpdate(entry, [nameAccordingTo |-> api_source,
                       match_type_debug |-> "Success_Batch_" \o term,
                       cleanedTaxonomy |-> cleaned_taxonomy])

\* one iteration of the loop of line 306
Stage2LookupStep ==
    /\ pc = "stage2_lookup"
    /\ i <= Len(unmatched_tuples)
    /\ LET combo == unmatched_tuples[i]
           parsed_all == parse_semicolon_taxonomy(combo[1])
           parsed_names == drop_species(parsed_all, combo[2])
           cleaned_taxonomy == IF parsed_names # <<>> THEN join(";", parsed_names) ELSE combo[1]
           m == matched_position(parsed_names, batch_lookup)
       IN IF parsed_all = <<>> \/ parsed_names = <<>> \/ m = 0
          THEN /\ still_unmatched_batch' = Append(still_unmatched_batch, combo)
               /\ UNCHANGED <<results_cache, cache_writes>>
          ELSE /\ CacheAssign(combo, batch_record(batch_lookup[parsed_names[m]], parsed_names[m],
                                                  cleaned_taxonomy))
               /\ UNCHANGED still_unmatched_batch
    /\ i' = i + 1
    /\ UNCHANGED <<parse_vars, inputs, pc, n_proc, map_key, unique_tuples_to_process, cases_to_handle,
                   unmatched_tuples, stage1_vars, pool, all_terms_to_match, batch_data, batch_lookup,
                   seq_call, batch_outcome, df_result, history>>

\* line 343
Stage2LookupDone ==
    /\ pc = "stage2_lookup"
    /\ i > Len(unmatched_tuples)
    /\ unmatched_tuples' = still_unmatched_batch
    /\ pc' = "final"
    /\ i' = 1
    /\ UNCHANGED <<parse_vars, inputs, n_proc, map_key, unique_tuples_to_process, results_cache, cases_to_handle,
                   stage1_vars, pool, stage2_vars, df_result, cache_writes, history>>

-----------------------------------------------------------------------------
(* Lines 346-372: the keys no stage matched *)

\* the terms are kept at full depth
final_names_untruncated(combo) == parse_semicolon_taxonomy(combo[1])

\* lines 351-357
final_names(combo) ==
    LET parsed_names == parse_semicolon_taxonomy(combo[1])
    IN IF combo[2] \in assays_to_skip_species
          /\ Len(parsed_names) >= max_depth_for_assay(combo[2])
          /\ parsed_names # <<>>
       THEN SubSeq(parsed_names, 1, Len(parsed_names) - 1)
       ELSE parsed_names

\* lines 359-370
no_match_record(combo) ==
    LET parsed_names == final_names(combo)
        cleaned_taxonomy == IF parsed_names # <<>> THEN join(";", parsed_names) ELSE combo[1]
    IN incertae_sedis_record("Failed_All_Stages_NoMatch", cleaned_taxonomy)

\* one iteration of the loop of line 348
FinalStep ==
    /\ pc = "final"
    /\ i <= Len(unmatched_tuples)
    /\ CacheAssign(unmatched_tuples[i], no_match_record(unmatched_tuples[i]))
    /\ i' = i + 1
    /\ UNCHANGED <<parse_vars, inputs, pc, n_proc, map_key, unique_tuples_to_process, cases_to_handle,
                   unmatched_tuples, stage1_vars, pool, stage2_vars, df_result, history>>

-----------------------------------------------------------------------------
(* Lines 374-398: the sentinel's record and the merge onto the dataset *)

truly_empty_record == incertae_sedis_record("incertae_sedis_truly_empty_fallback", "")

\* lines 128-140: the row of df_to_process, the copy that carries '_map_key'
with_map_key(row, key) == DictSet(row, "_map_key", key)

\* no column is dropped
drop_columns_none(row, columns) == row

\* line 396: df_to_process.drop(columns=[...], errors='ignore')
drop_columns(row, columns) == [f \in (DOMAIN row) \ columns |-> row[f]]

\* lines 389-396: a row of the returned dataset; a key that is not in the
\* cache maps to a missing value and adds no column value
merged_row(row, key, cache) ==
    drop_columns(IF key \in DOMAIN cache THEN DictUpdate(with_map_key(row, key), cache[key])
                 ELSE with_map_key(row, key),
                 {"_map_key"})

Assemble ==
    /\ pc = "final"
    /\ i > Len(unmatched_tuples)
    /\ CacheAssign(IS_TRULY_EMPTY, truly_empty_record)
    /\ df_result' = [r \in 1..Len(occurrence_df) |-> merged_row(occurrence_df[r], map_key[r], results_cache')]
    /\ pc' = "done"
    /\ UNCHANGED <<parse_vars, inputs, n_proc, map_key, unique_tuples_to_process, cases_to_handle,
                   unmatched_tuples, stage1_vars, pool, stage2_vars, i, history>>

Next ==
    \/ Setup \/ FastPathStep \/ FastPathDone
    \/ WorkerStart \/ IdWorkerFinish \/ BatchWorkerFinish
    \/ Stage1Group \/ Stage1PoolCreate \/ Stage1PoolFail \/ Stage1MapReturn
    \/ Stage1MergeStep \/ Stage1MergeDone
    \/ Stage2Begin \/ Stage2PoolCreate \/ Stage2PoolFail \/ Stage2MapReturn
    \/ SeqCall \/ SeqReturn \/ SeqDone
    \/ Stage2LookupStep \/ Stage2LookupDone
    \/ FinalStep \/ Assemble

Spec == Init /\ [][Next]_vars

\* a remote call that the sequential loop issued returns or raises: no call
\* stays in flight for ever (line 281)
SeqCallsEnd == []<>(seq_call = 0)

\* the control thread keeps running its sequential loop
SeqFairness == WF_vars(SeqCall) /\ WF_vars(SeqDone) /\ SeqCallsEnd

LiveSpec == Spec /\ SeqFairness

-----------------------------------------------------------------------------
(* parse_semicolon_taxonomy called on its own *)

MaxTokens == 3

\* tokens: blank, one letter, plain, "unassigned" in two spellings, with a
\* separator character, with sp./spp., with digits, with inner spaces
TokenSet ==
    {"", " ", "b", "Aa", "Zz", "unassigned", " UnAssigned ", "Cc_sp.2", "D-d", "e/E", "7",
     "Ff  gg", "Hh spp.", " Ii ", "K1"}

ParseInputs ==
    {NaN, "Eukaryota;Metazoa_sp.2;"}
        \cup {join(";", tokens) : tokens \in UNION {[1..n -> TokenSet] : n \in 1..MaxTokens}}

InitParse ==
    /\ tax_string \in ParseInputs
    /\ cleaned_names = <<>>
    /\ pc = "parse"
    /\ occurrence_df = <<>>
    /\ params_dict = [pr2_worms_dict |-> EmptyDict, assays_to_skip_species_match |-> {},
                      assay_rank_info |-> AssayRankInfo, taxonomic_api_source |-> "WoRMS"]
    /\ n_proc_arg = 0
    /\ worms_by_id = BackboneAllAccepted
    /\ worms_by_name = EmptyDict
    /\ n_proc = 0
    /\ map_key = <<>>
    /\ unique_tuples_to_process = <<>>
    /\ results_cache = EmptyDict
    /\ cases_to_handle = <<>>
    /\ unmatched_tuples = <<>>
    /\ aphia_id_map = [ids |-> <<>>, groups |-> EmptyDict]
    /\ pool = NoPool
    /\ parallel_results = <<>>
    /\ all_terms_to_match = <<>>
    /\ batch_data = <<>>
    /\ batch_lookup = EmptyDict
    /\ still_unmatched_batch = <<>>
    /\ seq_call = 0
    /\ i = 1
    /\ df_result = <<>>
    /\ cache_writes = EmptyDict
    /\ id_fetches = EmptyDict
    /\ term_submits = EmptyDict
    /\ batch_outcome = EmptyDict
    /\ stage2_path = "none"

\* lines 15-47: the call returns
ParseCall ==
    /\ pc = "parse"
    /\ cleaned_names' = parse_semicolon_taxonomy(tax_string)
    /\ pc' = "parsed"
    /\ UNCHANGED <<tax_string, inputs, n_proc, map_key, unique_tuples_to_process, results_cache,
                   cases_to_handle, unmatched_tuples, stage1_vars, pool, stage2_vars, i, df_result,
                   cache_writes, history>>

NextParse == ParseCall

SpecParse == InitParse /\ [][NextParse]_vars

-----------------------------------------------------------------------------
(* Properties *)

StartsWith(str, prefix) == Len(str) >= Len(prefix) /\ SubSeq(str, 1, Len(prefix)) = prefix

Rows == 1..Len(occurrence_df)

\* the keys that are (lineage, assay) pairs
PairKeys(keys) == {k \in keys : k # IS_TRULY_EMPTY}

label(k) == results_cache[k]["match_type_debug"]

\* C1: Totality.  When the call has completed, every row of the returned
\* dataset carries a record whose scientificName is present and not null and
\* in which each of the seven standard rank fields exists.
C1_Totality ==
    pc = "done" =>
        \A r \in Rows :
            /\ "scientificName" \in DOMAIN df_result[r]
            /\ df_result[r]["scientificName"] # NoneVal
            /\ RankSet \subseteq DOMAIN df_result[r]

\* C2: every key is assigned in results_cache exactly once: no key of the
\* cache has been assigned twice, when the call has completed every key of
\* the dataset has been assigned, and rows sharing a key carry the same record.
C2_ResolvedExactlyOnce ==
    /\ DOMAIN cache_writes = DOMAIN results_cache
    /\ \A k \in DOMAIN cache_writes : cache_writes[k] = 1
    /\ pc = "done" =>
          /\ \A r \in Rows : map_key[r] \in DOMAIN results_cache
          /\ \A r1, r2 \in Rows :
                map_key[r1] = map_key[r2] =>
                    \A f \in DOMAIN results_cache[map_key[r1]] : df_result[r1][f] = df_result[r2][f]

\* C2 witness: a completed run in which the fast path, the prematch stage,
\* the batch matcher and the unmatched fallback each assigned a key, and two
\* rows share a key.
C2_Witness ==
    /\ pc = "done"
    /\ \E k \in DOMAIN results_cache : StartsWith(label(k), "incertae_sedis_simple_case_")
    /\ \E k \in DOMAIN results_cache : StartsWith(label(k), "Success_AphiaID_")
    /\ \E k \in DOMAIN results_cache : StartsWith(label(k), "Success_Batch_")
    /\ \E k \in DOMAIN results_cache : label(k) = "Failed_All_Stages_NoMatch"
    /\ \E r1, r2 \in Rows : r1 # r2 /\ map_key[r1] = map_key[r2] /\ map_key[r1] # IS_TRULY_EMPTY

\* the batches that contain a term
BatchesOf(term) == {b \in 1..Len(batch_data) : \E k \in 1..Len(batch_data[b][2]) : batch_data[b][2][k] = term}

\* C3: Deduplication.  The unique keys hold no key twice; an AphiaID is
\* fetched at most once; a term is passed to the name-match service at most
\* once, and exactly once, in exactly one batch of at most 50 terms, once the
\* batches of Stage 2 have been fetched; rows with the same lineage and assay
\* end with identical output.
C3_Deduplication ==
    /\ \A a, b \in 1..Len(unique_tuples_to_process) :
          unique_tuples_to_process[a] = unique_tuples_to_process[b] => a = b
    /\ \A id \in DOMAIN id_fetches : id_fetches[id] <= 1
    /\ \A t \in DOMAIN term_submits : term_submits[t] <= 1
    /\ \A b \in 1..Len(batch_data) : Len(batch_data[b][2]) <= 50
    /\ pc = "stage2_lookup" =>
          /\ \A k \in 1..Len(unmatched_tuples) :
                Range(parse_semicolon_taxonomy(unmatched_tuples[k][1])) \subseteq Range(all_terms_to_match)
          /\ \A t \in Range(all_terms_to_match) :
                /\ t \in DOMAIN term_submits /\ term_submits[t] = 1
                /\ Cardinality(BatchesOf(t)) = 1
    /\ pc = "done" =>
          \A r1, r2 \in Rows : occurrence_df[r1] = occurrence_df[r2] => df_result[r1] = df_result[r2]

\* C3 witness: the batches of Stage 2 have been fetched, there are several
\* batches, two unresolved keys share a term, and an AphiaID was fetched once
\* for a group of two keys.
C3_Witness ==
    /\ pc = "stage2_lookup"
    /\ i = 1
    /\ Len(batch_data) >= 2
    /\ \E a, b \in 1..Len(unmatched_tuples) :
          /\ a # b
          /\ Range(parse_semicolon_taxonomy(unmatched_tuples[a][1]))
                \cap Range(parse_semicolon_taxonomy(unmatched_tuples[b][1])) # {}
    /\ \E id \in DOMAIN id_fetches :
          id_fetches[id] = 1 /\ Len(aphia_id_map.groups[id]) >= 2

\* the remote calls outstanding: those of the pool's workers and that of the
\* sequential loop
Outstanding == Cardinality(pool.running) + (IF seq_call # 0 THEN 1 ELSE 0)

\* C4: at most 3 remote calls are outstanding at any time; a pool is alive
\* only while the control thread waits in the pool.map of that pool's stage;
\* the sequential fallback has at most one call outstanding and no pool.
C4_BoundedConcurrency ==
    /\ Outstanding <= 3
    /\ pool.alive => \/ (pool.stage = 1 /\ pc = "stage1_map")
                     \/ (pool.stage = 2 /\ pc = "stage2_map")
    /\ ~pool.alive => pool.running = {}
    /\ pc = "stage2_seq" => ~pool.alive /\ Outstanding <= 1
    /\ seq_call # 0 => pc = "stage2_seq"

\* C4 witness: 3 calls are outstanding while a fourth task waits, for a
\* requested worker count above 3.
C4_Witness ==
    /\ n_proc_arg > 3
    /\ Cardinality(pool.running) = 3
    /\ pool.pending # {}

\* C5: no failure inside the resolution engine aborts the run: the call
\* never ends by raising.
C5_NeverRaises == pc # "raised"

\* the index of the first candidate of a list that is a record with status
\* accepted; 0 when there is none
FirstAccepted(name_list) ==
    LET acc == {k \in 1..Len(name_list) :
                   name_list[k].kind = "dict" /\ Get(name_list[k].rec, "status") = "accepted"}
    IN IF acc = {} THEN 0 ELSE CHOOSE k \in acc : \A j \in acc : k <= j

Candidates(term) == IF term \in DOMAIN worms_by_name THEN worms_by_name[term] ELSE <<>>

\* the terms of a key that the batch matcher looks up: all its terms, less
\* the last one for a full-depth lineage of an assay that skips species
RemainingTerms(k) ==
    LET terms == parse_semicolon_taxonomy(k[1])
        depth == IF k[2] \in DOMAIN params_dict.assay_rank_info
                 THEN params_dict.assay_rank_info[k[2]].max_depth ELSE 99
    IN IF k[2] \in params_dict.assays_to_skip_species_match /\ Len(terms) >= depth /\ terms # <<>>
       THEN SubSeq(terms, 1, Len(terms) - 1)
       ELSE terms

BatchLabelPrefix == "Success_Batch_"

\* the term that a Success_Batch_<term> label names
LabelTerm(k) == SubSeq(label(k), Len(BatchLabelPrefix) + 1, Len(label(k)))

\* Stage 2 has fetched its batches
Stage2Fetched == stage2_path # "none" /\ pc \in {"stage2_lookup", "final", "done"}

\* C6: Batch-failure resilience.  Once the batches of Stage 2 have been
\* fetched, on the parallel and on the sequential path: a batch whose remote
\* call raised has none of its terms in batch_lookup; every term of a batch
\* that completed and that has an accepted candidate is in batch_lookup with
\* the entry of its first accepted candidate; and when the call has
\* completed no key is left with Failed_All_Stages_NoMatch while one of its
\* remaining terms is in batch_lookup.
C6_BatchFailureResilience ==
    /\ (Stage2Fetched /\ i = 1) =>
          \A b \in 1..Len(batch_data) :
              /\ b \in DOMAIN batch_outcome
              /\ batch_outcome[b] = "call_raised" =>
                    \A t \in Range(batch_data[b][2]) : t \notin DOMAIN batch_lookup
              /\ batch_outcome[b] = "completed" =>
                    \A t \in Range(batch_data[b][2]) :
                        FirstAccepted(Candidates(t)) # 0 =>
                            /\ t \in DOMAIN batch_lookup
                            /\ batch_lookup[t] = match_entry(Candidates(t)[FirstAccepted(Candidates(t))].rec)
    /\ (Stage2Fetched /\ pc = "done") =>
          \A k \in PairKeys(DOMAIN results_cache) :
              label(k) = "Failed_All_Stages_NoMatch" =>
                  Range(RemainingTerms(k)) \cap DOMAIN batch_lookup = {}

\* C6 witness: a completed run of the parallel path with two batches, the
\* call of one raised, the other completed, and a key was matched on a term
\* of the batch that completed.
C6_Witness ==
    /\ pc = "done"
    /\ stage2_path = "parallel"
    /\ \E b1, b2 \in DOMAIN batch_outcome :
          /\ batch_outcome[b1] = "call_raised"
          /\ batch_outcome[b2] = "completed"
          /\ \E k \in PairKeys(DOMAIN results_cache) :
                /\ StartsWith(label(k), BatchLabelPrefix)
                /\ LabelTerm(k) \in Range(batch_data[b2][2])

\* the same on the sequential fallback
C6_WitnessSequential ==
    /\ pc = "done"
    /\ stage2_path = "sequential"
    /\ \E b1, b2 \in DOMAIN batch_outcome :
          /\ batch_outcome[b1] = "call_raised"
          /\ batch_outcome[b2] = "completed"
          /\ \E k \in PairKeys(DOMAIN results_cache) :
                /\ StartsWith(label(k), BatchLabelPrefix)
                /\ LabelTerm(k) \in Range(batch_data[b2][2])

SentinelInputs == {"", "  ", "Unassigned"}

\* C7 as stated: the inputs "", "  ", "Unassigned" and "unassigned;" all map
\* to the sentinel key and end with scientificName "incertae sedis" and the
\* label incertae_sedis_unassigned or incertae_sedis_truly_empty_fallback.
C7_AllMapToSentinel ==
    pc # "start" =>
        \A r \in Rows :
            occurrence_df[r].verbatimIdentification \in SentinelInputs \cup {"unassigned;"} =>
                /\ map_key[r] = IS_TRULY_EMPTY
                /\ pc = "done" =>
                      /\ df_result[r]["scientificName"] = "incertae sedis"
                      /\ df_result[r]["match_type_debug"] \in
                            {"incertae_sedis_unassigned", "incertae_sedis_truly_empty_fallback"}

\* C7 amended: "", "  " and "Unassigned" map to the sentinel key whatever the
\* assay and end with the label incertae_sedis_truly_empty_fallback and an
\* empty cleanedTaxonomy; "unassigned;" keeps its own (lineage, assay) key
\* and ends with the label incertae_sedis_unassigned and cleanedTaxonomy
\* "unassigned"; all four end with scientificName "incertae sedis".
C7_TrulyEmptyDetection ==
    pc # "start" =>
        \A r \in Rows :
            LET v == occurrence_df[r].verbatimIdentification IN
            /\ v \in SentinelInputs =>
                  /\ map_key[r] = IS_TRULY_EMPTY
                  /\ pc = "done" =>
                        /\ df_result[r]["scientificName"] = "incertae sedis"
                        /\ df_result[r]["match_type_debug"] = "incertae_sedis_truly_empty_fallback"
                        /\ df_result[r]["cleanedTaxonomy"] = ""
            /\ v = "unassigned;" =>
                  /\ map_key[r] = <<v, occurrence_df[r].assay_name>>
                  /\ pc = "done" =>
                        /\ df_result[r]["scientificName"] = "incertae sedis"
                        /\ df_result[r]["match_type_debug"] = "incertae_sedis_unassigned"
                        /\ df_result[r]["cleanedTaxonomy"] = "unassigned"

\* C7 witness: a completed run whose dataset holds each of the four inputs,
\* two rows of different assays on the sentinel key, and "unassigned;" under
\* two assays on two keys.
C7_Witness ==
    /\ pc = "done"
    /\ \A v \in SentinelInputs \cup {"unassigned;"} :
          \E r \in Rows : occurrence_df[r].verbatimIdentification = v
    /\ \E r1, r2 \in Rows :
          /\ map_key[r1] = IS_TRULY_EMPTY /\ map_key[r2] = IS_TRULY_EMPTY
          /\ occurrence_df[r1].assay_name # occurrence_df[r2].assay_name
    /\ \E r1, r2 \in Rows :
          /\ occurrence_df[r1].verbatimIdentification = "unassigned;"
          /\ occurrence_df[r2].verbatimIdentification = "unassigned;"
          /\ map_key[r1] # map_key[r2]

SimpleCasePrefix == "incertae_sedis_simple_case_"

\* a lineage trimmed and with its trailing semicolons removed
TrimmedLineage(v) == strip(rstrip(strip(v), ";"))

\* C8: Kingdom-only shortcut.  When the call has completed, a key has a label
\* starting incertae_sedis_simple_case_ exactly when its trimmed lineage
\* equals "eukaryota" whatever the case; the key of the input "Bacteria" is
\* still to be processed after the fast path and ends with a Success_ label
\* or Failed_All_Stages_NoMatch.
C8_KingdomOnlyShortcut ==
    /\ pc \notin {"start", "fast_path"} =>
          \A r \in Rows :
              occurrence_df[r].verbatimIdentification = "Bacteria" =>
                  /\ InSeq(map_key[r], unique_tuples_to_process)
                  /\ ~InSeq(map_key[r], cases_to_handle)
    /\ pc = "done" =>
          \A k \in PairKeys(DOMAIN results_cache) :
              /\ StartsWith(label(k), SimpleCasePrefix) <=> lower(TrimmedLineage(k[1])) = "eukaryota"
              /\ StartsWith(label(k), SimpleCasePrefix) =>
                    /\ label(k) = SimpleCasePrefix \o TrimmedLineage(k[1])
                    /\ results_cache[k]["scientificName"] = "incertae sedis"
              /\ k[1] = "Bacteria" =>
                    \/ StartsWith(label(k), "Success_")
                    \/ label(k) = "Failed_All_Stages_NoMatch"

\* C8 witness: a completed run in which "Eukaryota" took the shortcut, the
\* key of "Bacteria" was matched, and a longer lineage starting with
\* Eukaryota did not take the shortcut.
C8_Witness ==
    /\ pc = "done"
    /\ \E k \in PairKeys(DOMAIN results_cache) : StartsWith(label(k), SimpleCasePrefix)
    /\ \E k \in PairKeys(DOMAIN results_cache) : k[1] = "Bacteria" /\ StartsWith(label(k), "Success_")
    /\ \E k \in PairKeys(DOMAIN results_cache) :
          StartsWith(k[1], "Eukaryota;") /\ ~StartsWith(label(k), SimpleCasePrefix)

\* a key is full-depth for an assay that skips species
IsTruncated(k) ==
    /\ k[2] \in params_dict.assays_to_skip_species_match
    /\ Len(parse_semicolon_taxonomy(k[1])) >=
          (IF k[2] \in DOMAIN params_dict.assay_rank_info
           THEN params_dict.assay_rank_info[k[2]].max_depth ELSE 99)

\* the keys that the batch matcher resolved
BatchKeys == {k \in PairKeys(DOMAIN results_cache) : StartsWith(label(k), BatchLabelPrefix)}

PresentPositions(k) ==
    LET kept == RemainingTerms(k)
    IN {j \in 1..Len(kept) : kept[j] \in DOMAIN batch_lookup}

\* the keys that reached the batch matcher
ReachedBatchMatcher ==
    {k \in PairKeys(DOMAIN results_cache) :
        StartsWith(label(k), BatchLabelPrefix) \/ label(k) = "Failed_All_Stages_NoMatch"}

\* C10: Reverse-specificity match order.  When the call has completed, every
\* key that reached the batch matcher carries the lookup entry of the last
\* of its remaining terms that is in the lookup table, with the label
\* Success_Batch_<that term>, and is unmatched only when none of them is.
C10_ReverseSpecificity ==
    (pc = "done" /\ stage2_path # "none") =>
        \A k \in ReachedBatchMatcher :
            LET kept == RemainingTerms(k)
                present == {j \in 1..Len(kept) : kept[j] \in DOMAIN batch_lookup}
            IN IF present = {}
               THEN label(k) = "Failed_All_Stages_NoMatch"
               ELSE LET m == CHOOSE j \in present : \A h \in present : h <= j
                    IN /\ label(k) = BatchLabelPrefix \o kept[m]
                       /\ \A f \in DOMAIN batch_lookup[kept[m]] :
                             results_cache[k][f] = batch_lookup[kept[m]][f]

\* C10 witness: a completed run in which a key was matched on a term that is
\* not its last while an earlier term of the key is in the table too, and
\* another key with terms was left unmatched.
C10_Witness ==
    /\ pc = "done"
    /\ stage2_path # "none"
    /\ \E k \in BatchKeys :
          /\ Cardinality(PresentPositions(k)) >= 2
          /\ Len(RemainingTerms(k)) \notin PresentPositions(k)
    /\ \E k \in ReachedBatchMatcher :
          label(k) = "Failed_All_Stages_NoMatch" /\ RemainingTerms(k) # <<>>

\* the columns of a classification record, with cleanedTaxonomy and match_type_debug
RecordColumns ==
    {"scientificName", "scientificNameID", "taxonRank", "nameAccordingTo", "match_type_debug",
     "cleanedTaxonomy"} \cup RankSet

\* C11: the merge preserves the dataset.  When the call has completed the
\* returned dataset has as many rows as the input; row r of it agrees with
\* row r of the input on every column that is not a record column, has no
\* column besides the input's and the record's, carries on the record's
\* columns the record cached for its key, and has no '_map_key' column; the
\* caller's dataset is still one of the input datasets, without '_map_key'.
C11_MergePreservesDataset ==
    /\ occurrence_df \in Datasets
    /\ \A r \in Rows : "_map_key" \notin DOMAIN occurrence_df[r]
    /\ pc = "done" =>
          /\ Len(df_result) = Len(occurrence_df)
          /\ \A r \in Rows :
                /\ \A f \in (DOMAIN occurrence_df[r]) \ RecordColumns :
                      f \in DOMAIN df_result[r] /\ df_result[r][f] = occurrence_df[r][f]
                /\ DOMAIN df_result[r] \subseteq (DOMAIN occurrence_df[r]) \cup RecordColumns
                /\ \A f \in DOMAIN results_cache[map_key[r]] :
                      df_result[r][f] = results_cache[map_key[r]][f]
                /\ "_map_key" \notin DOMAIN df_result[r]

\* C11 witness: a completed run on a dataset whose rows carry a column of
\* their own and a scientificName that the merge overwrote.
C11_Witness ==
    /\ pc = "done"
    /\ \E r \in Rows :
          /\ "occurrenceID" \in DOMAIN occurrence_df[r]
          /\ df_result[r]["occurrenceID"] = occurrence_df[r]["occurrenceID"]
          /\ occurrence_df[r]["scientificName"] = "old name"
          /\ df_result[r]["scientificName"] = "incertae sedis"

\* the characters a returned term must not contain
ForbiddenChars == {"0", "1", "2", "3", "4", "5", "6", "7", "8", "9", "_", "-", "/"}

\* a token that is neither empty nor "unassigned" once trimmed
IsKeptToken(token) == strip(token) # "" /\ lower(strip(token)) # "unassigned"

\* a token of two or more letters
IsPlainToken(token) ==
    /\ Len(token) > 1
    /\ \A n \in 1..Len(token) : contains(UpperAlpha \o LowerAlpha, CharAt(token, n))
    /\ lower(token) # "unassigned"

\* every character of the term is a space or a character of the token
DerivedFrom(term, token) ==
    \A n \in 1..Len(term) : CharAt(term, n) = " " \/ contains(token, CharAt(term, n))

\* the terms come, in order, from kept tokens at increasing positions
RECURSIVE Embeds(_, _)
Embeds(terms, tokens) ==
    IF terms = <<>> THEN TRUE
    ELSE IF tokens = <<>> THEN FALSE
    ELSE \/ /\ IsKeptToken(Head(tokens))
            /\ DerivedFrom(Head(terms), Head(tokens))
            /\ Embeds(Tail(terms), Tail(tokens))
         \/ Embeds(terms, Tail(tokens))

\* C12: parse_semicolon_taxonomy.  Once the call has returned: a blank
\* input gave the empty sequence; every returned term is longer than one
\* character, has no space at either end and holds no digit, underscore,
\* hyphen or slash; the returned terms come in input order from tokens that
\* are neither empty nor "unassigned"; an input of plain, empty and
\* "unassigned" tokens gave exactly its plain tokens in order; and
\* "Eukaryota;Metazoa_sp.2;" gave <<"Eukaryota", "Metazoa">>.
C12_ParseSemicolonTaxonomy ==
    pc = "parsed" =>
        /\ (isna(tax_string) \/ strip(tax_string) = "") => cleaned_names = <<>>
        /\ \A k \in 1..Len(cleaned_names) :
              /\ Len(cleaned_names[k]) > 1
              /\ strip(cleaned_names[k]) = cleaned_names[k]
              /\ \A n \in 1..Len(cleaned_names[k]) : CharAt(cleaned_names[k], n) \notin ForbiddenChars
        /\ ~isna(tax_string) =>
              LET tokens == split(tax_string, ";")
              IN /\ Embeds(cleaned_names, tokens)
                 /\ (\A k \in 1..Len(tokens) : IsPlainToken(tokens[k]) \/ ~IsKeptToken(tokens[k])) =>
                       cleaned_names = SelectSeq(tokens, IsPlainToken)
        /\ tax_string = "Eukaryota;Metazoa_sp.2;" => cleaned_names = <<"Eukaryota", "Metazoa">>

\* C12 witness: the call returned two terms for an input of three tokens, one
\* of which held a digit.
C12_Witness ==
    /\ pc = "parsed"
    /\ tax_string = "Aa;unassigned;Cc_sp.2"
    /\ cleaned_names = <<"Aa", "Cc">>

\* in the sequential fallback the batches before i have ended, each with an
\* outcome, the others have not started, and the only call that can be in
\* flight is that of batch i
SequentialInOrder ==
    pc = "stage2_seq" =>
        /\ stage2_path = "sequential"
        /\ DOMAIN batch_outcome = 1..(i - 1)
        /\ seq_call \in {0, i}
        /\ i <= Len(batch_data) + 1
        /\ seq_call # 0 => seq_chunk(i) = batch_data[i][2]

\* after the sequential fallback every batch has been processed, whatever
\* the outcome of the others
SequentialProcessedAll ==
    (stage2_path = "sequential" /\ pc \in {"stage2_lookup", "final", "done"}) =>
        DOMAIN batch_outcome = 1..Len(batch_data)

\* C13: when the pool of Stage 2 fails, the batches are processed
\* sequentially, one at a time in batch order; a batch that raises does not
\* stop the loop, every batch is processed; and Stage 2 eventually reaches
\* the per-key lookup.
C13_SequentialFallback ==
    /\ [](SequentialInOrder /\ SequentialProcessedAll)
    /\ (pc = "stage2_seq" ~> pc = "stage2_lookup")

\* C13 witness: the sequential fallback has reached the per-key lookup
\* after two batches, the first of which raised.
C13_Witness ==
    /\ pc = "stage2_lookup"
    /\ stage2_path = "sequential"
    /\ Len(batch_data) >= 2
    /\ batch_outcome[1] = "call_raised"
    /\ batch_outcome[2] = "completed"

\* the record the service holds for an AphiaID has status accepted
AcceptedById(id) ==
    /\ id \in DOMAIN worms_by_id
    /\ worms_by_id[id].kind = "dict"
    /\ "status" \in DOMAIN worms_by_id[id].rec
    /\ worms_by_id[id].rec["status"] = "accepted"

\* the keys grouped under an AphiaID
GroupOf(id) == Range(aphia_id_map.groups[id])

\* Stage 1 has merged the results of its fetches
Stage1Merged == parallel_results # <<>> /\ pc \notin {"stage1_map", "stage1_merge", "raised"}

\* C14: Prematch outcome per identifier group.  A fetch gives a match exactly
\* when it does not raise and the record has status accepted.  Once Stage 1
\* has merged: every key grouped under an identifier whose fetch gave a match
\* is cached with that record, the label Success_AphiaID_<id> and the join of
\* its own terms as cleanedTaxonomy; no key grouped under an identifier whose
\* fetch gave no match is cached by Stage 1, each is among the keys handed to
\* Stage 2, its terms are in the term set of Stage 2, and it ends with a
\* Success_Batch_ label or Failed_All_Stages_NoMatch.
C14_PrematchOutcome ==
    /\ \A id \in DOMAIN worms_by_id :
          /\ is_match_result(get_worms_classification_by_id_worker(
                                id, api_source, aphiaRecordByAphiaID(id, FALSE))[2]) <=> AcceptedById(id)
          /\ ~is_match_result(get_worms_classification_by_id_worker(
                                 id, api_source, aphiaRecordByAphiaID(id, TRUE))[2])
    /\ Stage1Merged =>
          \A t \in 1..Len(parallel_results) :
              LET id == parallel_results[t][1]
                  matched == "scientificName" \in DOMAIN parallel_results[t][2]
              IN /\ matched => AcceptedById(id)
                 /\ \A k \in GroupOf(id) :
                       IF matched
                       THEN /\ k \in DOMAIN results_cache
                            /\ label(k) = "Success_AphiaID_" \o ToStr(id)
                            /\ results_cache[k]["scientificName"] = Get(worms_by_id[id].rec, "scientificname")
                            /\ results_cache[k]["scientificNameID"] = Get(worms_by_id[id].rec, "lsid")
                            /\ results_cache[k]["taxonRank"] = Get(worms_by_id[id].rec, "rank")
                            /\ \A rank \in RankSet : results_cache[k][rank] = Get(worms_by_id[id].rec, rank)
                            /\ results_cache[k]["cleanedTaxonomy"] = join(";", parse_semicolon_taxonomy(k[1]))
                       ELSE /\ pc = "stage2" => (k \notin DOMAIN results_cache /\ InSeq(k, unmatched_tuples))
                            /\ pc \in {"stage2_pool", "stage2_map", "stage2_seq", "stage2_lookup"} =>
                                  Range(parse_semicolon_taxonomy(k[1])) \subseteq Range(all_terms_to_match)
                            /\ pc = "done" =>
                                  \/ StartsWith(label(k), BatchLabelPrefix)
                                  \/ label(k) = "Failed_All_Stages_NoMatch"

\* C14 witness: a completed run in which one identifier's fetch gave a
\* match for a group of two keys, another identifier of an accepted record
\* and one of a record that is not accepted gave none, and a key of a group
\* without a match was resolved by the batch matcher.
C14_Witness ==
    /\ pc = "done"
    /\ \E t \in 1..Len(parallel_results) :
          /\ "scientificName" \in DOMAIN parallel_results[t][2]
          /\ Cardinality(GroupOf(parallel_results[t][1])) >= 2
    /\ \E t \in 1..Len(parallel_results) :
          /\ "scientificName" \notin DOMAIN parallel_results[t][2]
          /\ AcceptedById(parallel_results[t][1])
          /\ \E k \in GroupOf(parallel_results[t][1]) : StartsWith(label(k), BatchLabelPrefix)

\* the same for a record that is not accepted
C14_WitnessNotAccepted ==
    /\ pc = "done"
    /\ \E t \in 1..Len(parallel_results) :
          /\ ~AcceptedById(parallel_results[t][1])
          /\ \E k \in GroupOf(parallel_results[t][1]) : label(k) = "Failed_All_Stages_NoMatch"

\* the keys whose assay is in the skip-species set
SkipKeys == {k \in PairKeys(Range(map_key)) : k[2] \in assays_to_skip_species}

\* the key's most specific term is present in the local dictionary
InDictionary(k) ==
    LET parsed_names == parse_semicolon_taxonomy(k[1])
    IN parsed_names # <<>> /\ parsed_names[Len(parsed_names)] \in DOMAIN pr2_dict

AphiaLabelPrefix == "Success_AphiaID_"

\* C15: A key whose assay is in the skip-species set is in no identifier
\* group of the prematch stage (so no identifier is fetched on its behalf)
\* and never has a Success_AphiaID_ label, whether or not its most specific
\* term is in the dictionary; unless the fast path resolved it, it is among
\* the keys handed to the batch matcher when Stage 2 begins and ends with a
\* Success_Batch_ label or Failed_All_Stages_NoMatch.
C15_SkipSpeciesAssays ==
    \A k \in SkipKeys :
        /\ \A id \in DOMAIN aphia_id_map.groups : k \notin GroupOf(id)
        /\ k \in DOMAIN results_cache => ~StartsWith(label(k), AphiaLabelPrefix)
        /\ (pc = "stage2" /\ k \notin Range(cases_to_handle)) => InSeq(k, unmatched_tuples)
        /\ (pc = "done" /\ k \notin Range(cases_to_handle)) =>
              \/ StartsWith(label(k), BatchLabelPrefix)
              \/ label(k) = "Failed_All_Stages_NoMatch"

\* C15 witness: a completed run in which a key of a skipped assay has its
\* most specific term in the dictionary, was resolved by the batch matcher,
\* and a key of another assay was resolved by its identifier.
C15_Witness ==
    /\ pc = "done"
    /\ \E k \in SkipKeys : InDictionary(k) /\ StartsWith(label(k), BatchLabelPrefix)
    /\ \E k \in PairKeys(DOMAIN results_cache) : StartsWith(label(k), AphiaLabelPrefix)

\* a worker process starts or finishes a call in this step
WorkerStep == pool'.alive /\ pool.alive /\ pool' # pool

\* every task of the pool has handed in its result
PoolComplete ==
    pool.pending = {} /\ pool.running = {} /\ (pool.alive => DOMAIN pool.results = 1..Len(pool.tasks))

\* C16: The resolution cache and the term lookup table change only in steps
\* of the control thread taken while no worker call is pending or running;
\* a step of a worker changes neither; and the results a stage merges are
\* those of its whole task set: Stage 1 starts merging with one result per
\* identifier, in order, and the lookup table Stage 2 combines holds every
\* entry of every batch's result.
C16_SingleWriter ==
    [][ /\ (results_cache' # results_cache \/ batch_lookup' # batch_lookup) => (PoolComplete /\ ~WorkerStep)
        /\ WorkerStep => UNCHANGED <<results_cache, batch_lookup, parallel_results>>
        /\ (pc = "stage1_map" /\ pc' = "stage1_merge") =>
              /\ PoolComplete
              /\ Len(parallel_results') = Len(aphia_id_map.ids)
              /\ \A t \in 1..Len(aphia_id_map.ids) : parallel_results'[t] = pool.results[t]
                                                      /\ parallel_results'[t][1] = aphia_id_map.ids[t]
        /\ (pc = "stage2_map" /\ pc' = "stage2_lookup") =>
              /\ PoolComplete
              /\ \A t \in 1..Len(batch_data) : DOMAIN pool.results[t][2] \subseteq DOMAIN batch_lookup'
      ]_vars

\* C16 witness: the parallel path of Stage 2 has combined the results of
\* several batches run by several workers into a lookup table with entries,
\* after Stage 1 cached a key from an identifier's record.
C16_Witness ==
    /\ pc = "stage2_lookup"
    /\ stage2_path = "parallel"
    /\ n_proc >= 2
    /\ Len(batch_data) >= 2
    /\ batch_lookup # EmptyDict
    /\ \E k \in PairKeys(DOMAIN results_cache) : StartsWith(label(k), AphiaLabelPrefix)

\* the key's normalized terms after the batch matcher's depth truncation
TruncatedTerms(k) == drop_species(parse_semicolon_taxonomy(k[1]), k[2])

\* the keys the batch matcher left unresolved, once the run has completed
LeftUnresolved == IF pc = "done" THEN Range(unmatched_tuples) ELSE {}

\* the record has the incertae-sedis shape and the no-match label
IsNoMatchRecord(rec) ==
    /\ rec["scientificName"] = "incertae sedis"
    /\ rec["scientificNameID"] = "urn:lsid:marinespecies.org:taxname:12"
    /\ rec["taxonRank"] = NoneVal
    /\ rec["nameAccordingTo"] = api_source
    /\ rec["match_type_debug"] = "Failed_All_Stages_NoMatch"
    /\ \A rank \in RankSet : rec[rank] = NoneVal

\* C17 as stated: every key left unresolved by the batch matcher has the
\* incertae-sedis-shaped record labelled Failed_All_Stages_NoMatch, with the
\* semicolon-join of its truncated term sequence as cleanedTaxonomy, also
\* when that sequence is empty.
C17_JoinOfTruncatedTerms ==
    \A k \in LeftUnresolved :
        /\ k \in DOMAIN results_cache
        /\ IsNoMatchRecord(results_cache[k])
        /\ results_cache[k]["cleanedTaxonomy"] = join(";", TruncatedTerms(k))

\* C17 amended: every key left unresolved by the batch matcher has the
\* incertae-sedis-shaped record labelled Failed_All_Stages_NoMatch; its
\* cleanedTaxonomy is the semicolon-join of its truncated term sequence when
\* that sequence is not empty, and the key's verbatim string when it is.
C17_FinalUnmatched ==
    \A k \in LeftUnresolved :
        /\ k \in DOMAIN results_cache
        /\ IsNoMatchRecord(results_cache[k])
        /\ results_cache[k]["cleanedTaxonomy"] =
              IF TruncatedTerms(k) # <<>> THEN join(";", TruncatedTerms(k)) ELSE k[1]

\* C17 witness: a completed run that left unresolved a key without terms
\* and a key whose terms were truncated to a shorter, non-empty sequence.
C17_Witness ==
    /\ \E k \in LeftUnresolved : parse_semicolon_taxonomy(k[1]) = <<>> /\ k[1] # ""
    /\ \E k \in LeftUnresolved :
          /\ TruncatedTerms(k) # <<>>
          /\ Len(TruncatedTerms(k)) < Len(parse_semicolon_taxonomy(k[1]))

\* a completed run that left unresolved a key whose terms became empty by truncation
C17_WitnessTruncatedEmpty ==
    \E k \in LeftUnresolved : TruncatedTerms(k) = <<>> /\ parse_semicolon_taxonomy(k[1]) # <<>>

\* the number of accepted candidates the service holds for a term
AcceptedCount(term) ==
    Cardinality({k \in 1..Len(Candidates(term)) :
                    Candidates(term)[k].kind = "dict" /\ Get(Candidates(term)[k].rec, "status") = "accepted"})

\* every entry of the table is built from the first accepted candidate of its term
FromFirstAccepted(table) ==
    \A term \in DOMAIN table :
        /\ FirstAccepted(Candidates(term)) # 0
        /\ table[term] = match_entry(Candidates(term)[FirstAccepted(Candidates(term))].rec)

\* C18: Every entry of the lookup table, and of every worker's batch result,
\* is built from the first candidate of its term, in the order returned,
\* whose status is accepted, so a term whose candidate list is empty or has
\* no accepted candidate has no entry and a later accepted candidate is
\* never used; and once the batches are fetched, every term of a batch whose
\* response was processed to its end has an entry when it has an accepted
\* candidate.
C18_FirstAcceptedCandidate ==
    /\ FromFirstAccepted(batch_lookup)
    /\ (pool.alive /\ pool.stage = 2) => \A t \in DOMAIN pool.results : FromFirstAccepted(pool.results[t][2])
    /\ (Stage2Fetched /\ i = 1) =>
          \A b \in 1..Len(batch_data) :
              batch_outcome[b] = "completed" =>
                  \A term \in Range(batch_data[b][2]) :
                      term \in DOMAIN batch_lookup <=> FirstAccepted(Candidates(term)) # 0

\* C18 witness: the batches are fetched; a term with an unaccepted candidate
\* followed by two accepted ones has the entry of the first accepted one,
\* and a completed batch holds a term without any candidate and a term
\* whose candidates are none of them accepted, both without an entry.
C18_Witness ==
    /\ Stage2Fetched
    /\ \E term \in DOMAIN batch_lookup :
          /\ AcceptedCount(term) >= 2
          /\ FirstAccepted(Candidates(term)) >= 2
          /\ batch_lookup[term]["scientificName"] =
                Candidates(term)[FirstAccepted(Candidates(term))].rec["scientificname"]
    /\ \E b \in 1..Len(batch_data) :
          /\ batch_outcome[b] = "completed"
          /\ \E term \in Range(batch_data[b][2]) : Candidates(term) = <<>> /\ term \notin DOMAIN batch_lookup
          /\ \E term \in Range(batch_data[b][2]) :
                Candidates(term) # <<>> /\ AcceptedCount(term) = 0 /\ term \notin DOMAIN batch_lookup

\* the keys the fast-path classifier resolved
ShortCircuited == Range(cases_to_handle)

\* the fast path has run and the handled keys are removed
FastPathOver == pc \notin {"start", "fast_path"}

\* the record the fast path gives a lineage
FastPathRecord(v) ==
    IF is_unassigned_case(v)
    THEN incertae_sedis_record("incertae_sedis_unassigned", TrimmedLineage(v))
    ELSE incertae_sedis_record(SimpleCasePrefix \o TrimmedLineage(v), TrimmedLineage(v))

\* every row of the dataset is truly empty, unassigned or kingdom-only
OnlyShortCircuitedRows ==
    \A r \in Rows :
        \/ empty_verbatim_mask(occurrence_df[r])
        \/ is_unassigned_case(occurrence_df[r].verbatimIdentification)
        \/ is_simple_case(occurrence_df[r].verbatimIdentification)

\* the number of remote calls issued so far
RemoteCalls == Cardinality(DOMAIN id_fetches) + Cardinality(DOMAIN term_submits)

\* C19: Once the fast path is over, a key it resolved (and the sentinel key
\* of the truly empty rows) is not among the keys to process, in no
\* identifier group and not among the keys handed to the batch matcher; the
\* Stage 2 term set holds only terms of keys that are still to be processed;
\* the key's cached record was written once and is the fast path's record,
\* which is the one its rows carry in the returned dataset; and a dataset
\* whose rows are all truly empty, unassigned or kingdom-only starts no pool
\* and issues no remote call.
C19_FastPathShortCircuit ==
    /\ FastPathOver =>
          /\ \A k \in ShortCircuited \cup {IS_TRULY_EMPTY} :
                /\ ~InSeq(k, unique_tuples_to_process)
                /\ ~InSeq(k, unmatched_tuples)
                /\ ~InSeq(k, still_unmatched_batch)
                /\ \A id \in DOMAIN aphia_id_map.groups : k \notin GroupOf(id)
          /\ \A k \in ShortCircuited :
                /\ cache_writes[k] = 1
                /\ results_cache[k] = FastPathRecord(k[1])
                /\ pc = "done" =>
                      \A r \in Rows : map_key[r] = k =>
                          \A c \in DOMAIN results_cache[k] : df_result[r][c] = FastPathRecord(k[1])[c]
          /\ Range(all_terms_to_match) \subseteq
                UNION {Range(parse_semicolon_taxonomy(k[1])) : k \in Range(unique_tuples_to_process)}
    /\ OnlyShortCircuitedRows => (RemoteCalls = 0 /\ ~pool.alive /\ stage2_path = "none" /\ pc # "raised")

\* C19 witness: a completed run over a dataset with truly empty rows, a
\* key the fast path resolved whose term another key handed to the batch
\* matcher, and remote calls made for the other keys.
C19_Witness ==
    /\ pc = "done"
    /\ \E r \in Rows : map_key[r] = IS_TRULY_EMPTY
    /\ \E k \in ShortCircuited : Range(parse_semicolon_taxonomy(k[1])) \cap Range(all_terms_to_match) # {}
    /\ RemoteCalls > 0

\* a completed run over a dataset of several rows, all of them truly empty,
\* unassigned or kingdom-only, with keys of each kind
C19_WitnessNoCalls ==
    /\ pc = "done"
    /\ OnlyShortCircuitedRows
    /\ \E r \in Rows : map_key[r] = IS_TRULY_EMPTY
    /\ \E k \in ShortCircuited : is_unassigned_case(k[1])
    /\ \E k \in ShortCircuited : is_simple_case(k[1])

\* the lookup table the parallel workers build from the same batches, each
\* with the same response or failure as recorded for it
ParallelTable ==
    update_all(1, [b \in 1..Len(batch_data) |->
                      get_worms_batch_worker(batch_data[b], batch_outcome[b] = "call_raised")],
               EmptyDict)

\* C20: The sequential fallback is equivalent to the parallel path.  Once
\* the sequential fallback has fetched its batches, its lookup table equals
\* the table the parallel workers build from the same batches with the same
\* response or failure per batch, also for a batch whose response makes
\* processing fail part-way through its terms.
C20_FallbackEquivalence ==
    (Stage2Fetched /\ stage2_path = "sequential") => batch_lookup = ParallelTable

\* the same, for the runs in which no batch's processing failed part-way
C20_EquivalentWhenProcessed ==
    (Stage2Fetched /\ stage2_path = "sequential"
       /\ \A b \in 1..Len(batch_data) : batch_outcome[b] # "processing_raised")
    => batch_lookup = ParallelTable

\* what the parallel path itself builds is the table of its workers
C20_ParallelTable ==
    (Stage2Fetched /\ stage2_path = "parallel") => batch_lookup = ParallelTable

\* the position of the most specific term that has an accepted candidate; 0 when none has
MostSpecificAccepted(terms) ==
    LET found == {n \in 1..Len(terms) : FirstAccepted(Candidates(terms[n])) # 0}
    IN IF found = {} THEN 0 ELSE CHOOSE n \in found : \A j \in found : j <= n

\* the record of a key as the inputs alone determine it: the dataset,
\* params_dict and the service's answer per identifier and per term
ExpectedRecord(k) ==
    IF k = IS_TRULY_EMPTY THEN truly_empty_record
    ELSE IF is_unassigned_case(k[1]) \/ is_simple_case(k[1]) THEN FastPathRecord(k[1])
    ELSE IF k[2] \notin assays_to_skip_species /\ InDictionary(k)
            /\ AcceptedById(pr2_dict[parse_semicolon_taxonomy(k[1])[Len(parse_semicolon_taxonomy(k[1]))]])
    THEN LET id == pr2_dict[parse_semicolon_taxonomy(k[1])[Len(parse_semicolon_taxonomy(k[1]))]]
         IN with_cleaned(get_worms_classification_by_id_worker(id, api_source, worms_by_id[id])[2], k)
    ELSE LET terms == TruncatedTerms(k)
             n == MostSpecificAccepted(terms)
         IN IF n = 0 THEN no_match_record(k)
            ELSE batch_record(match_entry(Candidates(terms[n])[FirstAccepted(Candidates(terms[n]))].rec),
                              terms[n], join(";", terms))

ExpectedCache == [k \in Range(map_key) \cup {IS_TRULY_EMPTY} |-> ExpectedRecord(k)]

\* no identifier's fetch raised where the service holds an accepted record
NoIdCallFailed ==
    \A t \in 1..Len(parallel_results) :
        AcceptedById(parallel_results[t][1]) => "scientificName" \in DOMAIN parallel_results[t][2]

\* no batch's remote call raised
NoBatchCallFailed == \A b \in 1..Len(batch_data) : batch_outcome[b] # "call_raised"

\* every batch's response was processed to its end
AllBatchesProcessed == \A b \in 1..Len(batch_data) : batch_outcome[b] = "completed"

C21_EnumerationResolves ==
    /\ pc = "done" /\ NoIdCallFailed /\ NoBatchCallFailed
    /\ occurrence_df = DatasetLineages /\ pr2_dict = EmptyDict /\ assays_to_skip_species = {}
    /\ worms_by_id = BackboneAllAccepted /\ n_proc_arg = -1
    /\ stage2_path = "sequential"
    /\ "Aa" \in DOMAIN worms_by_name /\ worms_by_name["Aa"][1].kind = "nondict"
    /\ label(<<"Aa;Bb", "16S">>) = "Success_Batch_Bb"

C21_EnumerationLoses ==
    /\ pc = "done" /\ NoIdCallFailed /\ NoBatchCallFailed
    /\ occurrence_df = DatasetLineages /\ pr2_dict = EmptyDict /\ assays_to_skip_species = {}
    /\ worms_by_id = BackboneAllAccepted /\ n_proc_arg = -1
    /\ stage2_path = "sequential"
    /\ "Aa" \in DOMAIN worms_by_name /\ worms_by_name["Aa"][1].kind = "nondict"
    /\ label(<<"Aa;Bb", "16S">>) = "Failed_All_Stages_NoMatch"

====
